---- MODULE Spec2Model ----
(***************************************************************************)
(* Model of the crownsegmentr AMS3D core: rasters, filtered iterators and  *)
(* index creation (spatial_raster.h, spatial_index_creation.h), the kernel *)
(* and the per-point mean-shift driver (ams3d.h, section 4.5/4.6) and the  *)
(* orchestration that runs the driver over every input point.              *)
(*                                                                         *)
(* Numbers.  coordinate_t / distance_t are IEEE doubles.  Finite values    *)
(* are modelled as integers; NaN, +Inf and -Inf are three reserved values  *)
(* with the IEEE rules for comparison and subtraction (Lt, Le, Sub).       *)
(* Canopy ratios are counted in quarters (ratio = n/4).  Kernel radii are  *)
(* carried multiplied by 8 and kernel elevations multiplied by 16, so that *)
(* h*d_ratio/2 and h - h*h_ratio*0.25 are exact.  A weighted mean is       *)
(* rounded to the nearest integer (RoundDiv).                              *)
(***************************************************************************)
EXTENDS Integers, Sequences, FiniteSets, TLC

\* std::numeric_limits<coordinate_t>::quiet_NaN()
NaN == 99999
\* +infinity and -infinity: the other values std::isfinite rejects
Inf == 90000
NegInf == -90000

IsNaN(v) == v = NaN
IsFinite(v) == v \notin {NaN, Inf, NegInf}

\* a variant of Lt that also holds for equal values
LtOrEqual(a, b) == ~IsNaN(a) /\ ~IsNaN(b) /\ a <= b

\* a < b and a <= b on doubles: false as soon as one side is NaN
Lt(a, b) == ~IsNaN(a) /\ ~IsNaN(b) /\ a < b
Le(a, b) == ~IsNaN(a) /\ ~IsNaN(b) /\ a <= b

\* a - b on doubles
Sub(a, b) ==
    IF IsNaN(a) \/ IsNaN(b) THEN NaN
    ELSE IF IsFinite(a) /\ IsFinite(b) THEN a - b
    ELSE IF IsFinite(b) THEN a
    ELSE IF IsFinite(a) THEN (IF b = Inf THEN NegInf ELSE Inf)
    ELSE IF a = b THEN NaN ELSE a

\* static_cast< std::size_t >( a / b ) for b > 0: truncation toward zero
TruncDiv(a, b) == IF a >= 0 THEN a \div b ELSE 0 - ((0 - a) \div b)

\* a / b rounded to the nearest integer (b > 0)
RoundDiv(a, b) == (2 * a + b) \div (2 * b)

----------------------------------------------------------------------------
(* Geometry primitives: spatial_types.h, spatial_util.h *)

Point3D(px, py, pz) == [x |-> px, y |-> py, z |-> pz]

nan_point == Point3D(NaN, NaN, NaN)

has_non_finite_coordinate_value(point) ==
    ~IsFinite(point.z) \/ ~IsFinite(point.x) \/ ~IsFinite(point.y)

get_xy_point(point_3d) == [x |-> point_3d.x, y |-> point_3d.y]

\* _geom::comparable_distance of two 2D points: the squared distance
comparable_distance(a, b) == (a.x - b.x) * (a.x - b.x) + (a.y - b.y) * (a.y - b.y)

\* squared euclidean distance of two 3D points with finite coordinates
SquaredDistance3D(a, b) ==
    (a.x - b.x) * (a.x - b.x) + (a.y - b.y) * (a.y - b.y) + (a.z - b.z) * (a.z - b.z)

\* a variant of DistanceWithin that measures the distance on the x-y-plane
DistanceWithinXY(a, b, d) ==
    /\ ~has_non_finite_coordinate_value(a)
    /\ ~has_non_finite_coordinate_value(b)
    /\ d >= 0
    /\ comparable_distance(get_xy_point(a), get_xy_point(b)) <= d * d

\* spatial::distance( a, b ) <= d on doubles.  A NaN coordinate makes the
\* distance NaN and the comparison false.
DistanceWithin(a, b, d) ==
    /\ ~has_non_finite_coordinate_value(a)
    /\ ~has_non_finite_coordinate_value(b)
    /\ d >= 0
    /\ SquaredDistance3D(a, b) <= d * d

----------------------------------------------------------------------------
(* Rasters: spatial_raster.h *)

Single_value_pseudo_raster(v) == [kind |-> "single", value |-> v, values |-> <<v>>]

Raster(vals, rows, cols, xmin, xmax, ymin, ymax) ==
    [kind |-> "grid", values |-> vals, num_rows |-> rows, num_cols |-> cols,
     x_min |-> xmin, x_max |-> xmax, y_min |-> ymin, y_max |-> ymax]

\* no raster is returned when the copy throws
NullCopy == [kind |-> "none"]

\* a variant of has_value_at_xy_of that leaves out the rectangle's border
has_value_inside_xy_of(R, point) ==
    IF R.kind = "single" THEN TRUE
    ELSE /\ Lt(R.x_min, point.x)
         /\ Lt(point.x, R.x_max)
         /\ Lt(R.y_min, point.y)
         /\ Lt(point.y, R.y_max)

has_value_at_xy_of(R, point) ==
    IF R.kind = "single" THEN TRUE
    ELSE /\ Le(R.x_min, point.x)
         /\ Le(point.x, R.x_max)
         /\ Le(R.y_min, point.y)
         /\ Le(point.y, R.y_max)

\* row and column as no_throw_value_at_xy_of computes them, before the cast
\* is known to be defined: (y_max - y) / row_height with
\* row_height = (y_max - y_min) / num_rows, and the same for the column
RowQuotient(R, point) == TruncDiv((R.y_max - point.y) * R.num_rows, R.y_max - R.y_min)
ColQuotient(R, point) == TruncDiv((point.x - R.x_min) * R.num_cols, R.x_max - R.x_min)

\* a variant of row_index without the correction for y = y_min
row_index_uncorrected(R, point) == RowQuotient(R, point)

row_index(R, point) ==
    IF RowQuotient(R, point) = R.num_rows THEN R.num_rows - 1 ELSE RowQuotient(R, point)
col_index(R, point) ==
    IF ColQuotient(R, point) = R.num_cols THEN R.num_cols - 1 ELSE ColQuotient(R, point)

FlatIndex(R, point) == R.num_cols * row_index(R, point) + col_index(R, point)

\* The read of no_throw_value_at_xy_of is undefined: a negative quotient is
\* cast to std::size_t, or _values is read past its end.
UndefinedRead(R, point) ==
    /\ R.kind = "grid"
    /\ \/ RowQuotient(R, point) < 0
       \/ ColQuotient(R, point) < 0
       \/ FlatIndex(R, point) >= Len(R.values)

\* no_throw_value_at_xy_of for a point with finite x and y; ub is the value
\* an undefined read produces in this run
no_throw_value_at_xy_of(R, point, ub) ==
    IF R.kind = "single" THEN R.value
    ELSE IF UndefinedRead(R, point) THEN ub
    ELSE R.values[FlatIndex(R, point) + 1]

\* a variant of value_at_xy_of that tests for NaN before asking the class
value_at_xy_of_validating(R, point) ==
    IF IsNaN(point.x) \/ IsNaN(point.y)
        THEN [status |-> "runtime_error", value |-> NaN]
    ELSE IF R.kind = "single" THEN [status |-> "ok", value |-> R.value]
    ELSE IF ~has_value_at_xy_of(R, point)
        THEN [status |-> "out_of_range", value |-> NaN]
    ELSE [status |-> "ok", value |-> no_throw_value_at_xy_of(R, point, NaN)]

\* value_at_xy_of: "ok" with the value, or the exception it throws
value_at_xy_of(R, point) ==
    IF R.kind = "single" THEN [status |-> "ok", value |-> R.value]
    ELSE IF IsNaN(point.x) \/ IsNaN(point.y)
        THEN [status |-> "runtime_error", value |-> NaN]
    ELSE IF ~has_value_at_xy_of(R, point)
        THEN [status |-> "out_of_range", value |-> NaN]
    ELSE [status |-> "ok", value |-> no_throw_value_at_xy_of(R, point, NaN)]

\* values(): _values of either class
values(R) == R.values

\* a variant of copy_w_new_values that accepts any number of new values
copy_w_new_values_unchecked(R, new_values) ==
    IF R.kind = "single"
    THEN [status |-> "ok", raster |->
             Single_value_pseudo_raster(IF new_values = << >> THEN NaN ELSE new_values[1])]
    ELSE [status |-> "ok", raster |->
             Raster(new_values, R.num_rows, R.num_cols, R.x_min, R.x_max, R.y_min, R.y_max)]

\* copy_w_new_values of either class: the new raster, or the exception
copy_w_new_values(R, new_values) ==
    IF R.kind = "single"
    THEN IF Len(new_values) # 1
         THEN [status |-> "runtime_error", raster |-> NullCopy]
         ELSE [status |-> "ok", raster |-> Single_value_pseudo_raster(new_values[1])]
    ELSE IF Len(new_values) # Len(R.values)
         THEN [status |-> "runtime_error", raster |-> NullCopy]
         ELSE [status |-> "ok", raster |->
                  Raster(new_values, R.num_rows, R.num_cols,
                         R.x_min, R.x_max, R.y_min, R.y_max)]

----------------------------------------------------------------------------
(* Filtered iterators and index creation: spatial_index_creation.h.        *)
(* A pointer into the vector is a position 1..Len(points)+1; the last one  *)
(* is the address of points.cend().  An iterator is a record of the        *)
(* class's members.                                                        *)

\* a variant of AboveHeight_skip_current_point that also skips a point at the
\* minimum height
AboveHeight_skip_at_minimum(it, pts) ==
    IF it.ptr = it.end_ptr THEN FALSE
    ELSE IF has_non_finite_coordinate_value(pts[it.ptr]) THEN TRUE
    ELSE Le(pts[it.ptr].z, it.min_height)

\* _Finite_points_above_height_iterator::_skip_current_point
AboveHeight_skip_current_point(it, pts) ==
    IF it.ptr = it.end_ptr THEN FALSE
    ELSE IF has_non_finite_coordinate_value(pts[it.ptr]) THEN TRUE
    ELSE Lt(pts[it.ptr].z, it.min_height)

\* _Finite_points_above_ground_iterator::_skip_current_point
AboveGround_skip_current_point(it, pts, ub) ==
    IF it.ptr = it.end_ptr THEN FALSE
    ELSE IF has_non_finite_coordinate_value(pts[it.ptr]) THEN TRUE
    ELSE LET point_height_above_ground ==
                 Sub(pts[it.ptr].z, no_throw_value_at_xy_of(it.ground, pts[it.ptr], ub))
         IN  \/ ~IsFinite(point_height_above_ground)
             \/ Lt(point_height_above_ground, it.min_height)

\* _Finite_points_above_height_grid_iterator::_skip_current_point
HeightGrid_skip_current_point(it, pts, ub) ==
    IF it.ptr = it.end_ptr THEN FALSE
    ELSE IF has_non_finite_coordinate_value(pts[it.ptr]) THEN TRUE
    ELSE LET point_height_above_ground ==
                 Sub(pts[it.ptr].z, no_throw_value_at_xy_of(it.ground, pts[it.ptr], ub))
             min_height_above_ground ==
                 no_throw_value_at_xy_of(it.min_grid, pts[it.ptr], ub)
         IN  \/ ~IsFinite(point_height_above_ground)
             \/ ~IsFinite(min_height_above_ground)
             \/ Lt(point_height_above_ground, min_height_above_ground)

skip_current_point(it, pts, ub) ==
    CASE it.cls = "above_height" -> AboveHeight_skip_current_point(it, pts)
      [] it.cls = "above_ground" -> AboveGround_skip_current_point(it, pts, ub)
      [] it.cls = "height_grid"  -> HeightGrid_skip_current_point(it, pts, ub)

\* while (_skip_current_point()) { _ptr++; }
RECURSIVE SkipLoop(_, _, _)
SkipLoop(it, pts, ub) ==
    IF skip_current_point(it, pts, ub)
    THEN SkipLoop([it EXCEPT !.ptr = it.ptr + 1], pts, ub)
    ELSE it

\* the private constructors: the members, then the skip loop
AboveHeight_iterator(ptr, end_ptr, min_height, pts) ==
    SkipLoop([cls |-> "above_height", ptr |-> ptr, end_ptr |-> end_ptr,
              min_height |-> min_height], pts, NaN)
AboveGround_iterator(ptr, end_ptr, min_height, ground, pts, ub) ==
    SkipLoop([cls |-> "above_ground", ptr |-> ptr, end_ptr |-> end_ptr,
              min_height |-> min_height, ground |-> ground], pts, ub)
HeightGrid_iterator(ptr, end_ptr, min_grid, ground, pts, ub) ==
    SkipLoop([cls |-> "height_grid", ptr |-> ptr, end_ptr |-> end_ptr,
              min_grid |-> min_grid, ground |-> ground], pts, ub)

\* a variant of Increment without the loop that skips
IncrementWithoutSkipping(it, pts, ub) == [it EXCEPT !.ptr = it.ptr + 1]

\* operator++ (prefix)
Increment(it, pts, ub) == SkipLoop([it EXCEPT !.ptr = it.ptr + 1], pts, ub)

\* operator== compares the pointers only
IteratorEq(a, b) == a.ptr = b.ptr

\* index_for_3d_points_t{ first, last }: the range constructor reads *first
\* and increments until first == last.  The index is the sequence of the
\* points read (a bag; the order is the order of insertion).
RECURSIVE index_for_3d_points_t(_, _, _, _)
index_for_3d_points_t(first, last, pts, ub) ==
    IF IteratorEq(first, last) THEN << >>
    ELSE << pts[first.ptr] >> \o
         index_for_3d_points_t(Increment(first, pts, ub), last, pts, ub)

create_index_of_finite(pts, min_height) ==
    index_for_3d_points_t(
        AboveHeight_iterator(1, Len(pts) + 1, min_height, pts),
        AboveHeight_iterator(Len(pts) + 1, Len(pts) + 1, min_height, pts),
        pts, NaN)

\* the end iterators of the two raster classes hold null raster pointers
NullRaster == [kind |-> "null"]

create_index_of_above_ground(pts, min_height_above_ground, ground, ub) ==
    index_for_3d_points_t(
        AboveGround_iterator(1, Len(pts) + 1, min_height_above_ground, ground, pts, ub),
        AboveGround_iterator(Len(pts) + 1, Len(pts) + 1, 0, NullRaster, pts, ub),
        pts, ub)

create_index_of_above_ground_grid(pts, min_grid, ground, ub) ==
    index_for_3d_points_t(
        HeightGrid_iterator(1, Len(pts) + 1, min_grid, ground, pts, ub),
        HeightGrid_iterator(Len(pts) + 1, Len(pts) + 1, NullRaster, NullRaster, pts, ub),
        pts, ub)

----------------------------------------------------------------------------
(* Kernel: ams3d.h, section 4.5.  radius8 is 8 * radius; height16,         *)
(* bottom16, center16 and top16 are 16 * the elevation.  A ratio is given  *)
(* in quarters.                                                            *)

\* a variant of bottom_height_above_ground_with that adds the quarter of the
\* kernel height
bottom_height_above_ground_raised(point_height_above_ground, crown_height_to_tree_height) ==
    16 * point_height_above_ground + point_height_above_ground * crown_height_to_tree_height

\* a variant of bottom_height_above_ground_with that may go below the ground
bottom_height_above_ground_unbounded(point_height_above_ground, crown_height_to_tree_height) ==
    16 * point_height_above_ground - point_height_above_ground * crown_height_to_tree_height

\* _Kernel::bottom_height_above_ground_with, times 16:
\* h - h * crown_height_to_tree_height * 0.25, or 0 when that is negative
bottom_height_above_ground_with(point_height_above_ground, crown_height_to_tree_height) ==
    LET bottom_height_above_ground ==
            16 * point_height_above_ground
              - point_height_above_ground * crown_height_to_tree_height
    IN  IF bottom_height_above_ground < 0 THEN 0 ELSE bottom_height_above_ground

\* _Kernel::_Kernel( center, ground_height_at_center, d_ratio, h_ratio ); the
\* constructor without a ground height is the one with ground height 0.
\* A center with a NaN coordinate gives a kernel of NaN members.
Kernel(center, ground_height_at_center, crown_diameter_to_tree_height, crown_height_to_tree_height) ==
    IF has_non_finite_coordinate_value(center)
    THEN [xy_center |-> get_xy_point(center), radius8 |-> NaN, height16 |-> NaN,
          bottom16 |-> NaN, center16 |-> NaN, top16 |-> NaN]
    ELSE LET h == center.z - ground_height_at_center
             H16 == 4 * h * crown_height_to_tree_height
             bottom == 16 * ground_height_at_center
                         + bottom_height_above_ground_with(h, crown_height_to_tree_height)
         IN  [xy_center |-> get_xy_point(center),
              radius8   |-> h * crown_diameter_to_tree_height,
              height16  |-> H16,
              bottom16  |-> bottom,
              center16  |-> bottom + (H16 \div 2),
              top16     |-> bottom + H16]

\* a variant of within_xy_distance_functor with a strict comparison
within_xy_distance_functor_strict(xy_point, distance8, point) ==
    64 * comparable_distance(get_xy_point(point), xy_point) < distance8 * distance8

\* _within_xy_distance_functor::operator(): the comparable distance of the
\* point's xy to the functor's xy is <= the comparable distance of (0,0) and
\* (0,distance), here both times 64
within_xy_distance_functor(xy_point, distance8, point) ==
    64 * comparable_distance(get_xy_point(point), xy_point) <= distance8 * distance8

\* the box [cx-r, cy-r, bottom] .. [cx+r, cy+r, top] of the candidate query
InQueryBox(xy_center, radius8, bottom16, top16, point) ==
    /\ 8 * xy_center.x - radius8 <= 8 * point.x
    /\ 8 * point.x <= 8 * xy_center.x + radius8
    /\ 8 * xy_center.y - radius8 <= 8 * point.y
    /\ 8 * point.y <= 8 * xy_center.y + radius8
    /\ bottom16 <= 16 * point.z
    /\ 16 * point.z <= top16

\* get_points_intersecting_vertical_cylinder: the box candidates that satisfy
\* the exact predicate.  Every comparison with a NaN member is false.
get_points_intersecting_vertical_cylinder(point_cloud, xy_center, radius8, bottom16, top16) ==
    IF IsNaN(radius8) \/ IsNaN(bottom16) \/ IsNaN(top16) THEN << >>
    ELSE SelectSeq(point_cloud, LAMBDA p:
            /\ InQueryBox(xy_center, radius8, bottom16, top16, p)
            /\ bottom16 <= 16 * p.z
            /\ 16 * p.z <= top16
            /\ within_xy_distance_functor(xy_center, radius8, p))

find_intersecting_points_in(K, point_cloud) ==
    get_points_intersecting_vertical_cylinder(
        point_cloud, K.xy_center, K.radius8, K.bottom16, K.top16)

\* exp( gaussian_gamma * x ) with gaussian_gamma = -5, times 1000, for x in
\* [0, 1] in steps of a tenth
GaussTable == << 1000, 607, 368, 223, 135, 82, 50, 30, 18, 11, 7 >>

\* _math_functions::gauss_unsquared( num / den ), times 1000
gauss_unsquared(num, den) == GaussTable[((10 * num) \div den) + 1]

\* _math_functions::epanechnikov_unsquared( num / den ) = 1 - num / den,
\* times den
epanechnikov_unsquared(num, den) == den - num

\* _calculate_point_weight_of: the product of the two profiles.  With a
\* radius or a height of 0 the relative distance is 0 / 0, and the weight NaN.
\* The weights of one kernel share the factor radius8^2 * 1000.
calculate_point_weight_of(K, point) ==
    LET radius_squared == K.radius8 * K.radius8
        half_height == K.height16 \div 2
        half_height_squared == half_height * half_height
        horizontal == 64 * comparable_distance(get_xy_point(point), K.xy_center)
        vertical == (16 * point.z - K.center16) * (16 * point.z - K.center16)
    IN  IF radius_squared = 0 \/ half_height_squared = 0 THEN NaN
        ELSE epanechnikov_unsquared(horizontal, radius_squared)
               * gauss_unsquared(vertical, half_height_squared)

Weights(K, pts) == [j \in 1..Len(pts) |-> calculate_point_weight_of(K, pts[j])]

RECURSIVE SumSeq(_)
SumSeq(ws) == IF ws = << >> THEN 0 ELSE Head(ws) + SumSeq(Tail(ws))

\* the sum of doubles: NaN as soon as one term is NaN
SumWeights(ws) ==
    IF \E j \in 1..Len(ws) : IsNaN(ws[j]) THEN NaN ELSE SumSeq(ws)

\* weighted_mean_of: (sum of w * p) / (sum of w) per coordinate; a NaN sum
\* gives NaN coordinates, a sum of 0 is the DegenerateSum failure
weighted_mean_of(pts, ws) ==
    LET total == SumWeights(ws)
    IN  IF IsNaN(total) THEN [status |-> "ok", point |-> nan_point]
        ELSE IF total = 0 THEN [status |-> "DegenerateSum", point |-> nan_point]
        ELSE [status |-> "ok", point |->
                Point3D(RoundDiv(SumSeq([j \in 1..Len(pts) |-> ws[j] * pts[j].x]), total),
                        RoundDiv(SumSeq([j \in 1..Len(pts) |-> ws[j] * pts[j].y]), total),
                        RoundDiv(SumSeq([j \in 1..Len(pts) |-> ws[j] * pts[j].z]), total))]

\* the step is degenerate: the query is empty or the weights sum to 0
DegenerateStep(pts, ws) == pts = << >> \/ SumWeights(ws) = 0

\* _Kernel::calculate_centroid_in: the weighted centroid of the intersecting
\* points, undefined for a degenerate step (weighted_mean_of is not called)
calculate_centroid_in(K, point_cloud) ==
    LET pts == find_intersecting_points_in(K, point_cloud)
        ws == Weights(K, pts)
    IN  IF DegenerateStep(pts, ws)
        THEN [defined |-> FALSE, point |-> nan_point, mean_status |-> "not_called"]
        ELSE [defined |-> TRUE, point |-> weighted_mean_of(pts, ws).point,
              mean_status |-> weighted_mean_of(pts, ws).status]

----------------------------------------------------------------------------
(* The inputs of one run *)

\* the longest input vector
MaxPoints == 2
\* the largest max_num_centroids_per_mode
MaxCentroids == 2

PointValues ==
    { Point3D(0, 0, 8), Point3D(1, 0, 10), Point3D(0, 0, 0), Point3D(0, 0, -4),
      Point3D(NaN, 0, 8), Point3D(0, 0, Inf), Point3D(3, 0, 11), Point3D(1, 0, 9) }

PointVectors == UNION { [1..n -> PointValues] : n \in 0..MaxPoints }

\* a raster of one row and two columns over [0, 2] x [0, 2]
GridOf(vals) == Raster(vals, 1, 2, 0, 2, 0, 2)

\* the surface called and its raster arguments; a scalar ratio is a
\* single-value raster
Surfaces ==
    { [variant |-> "normalized", ground |-> Single_value_pseudo_raster(0),
       d_ratio |-> Single_value_pseudo_raster(2), h_ratio |-> Single_value_pseudo_raster(2)],
      [variant |-> "terraneous", ground |-> GridOf(<< 0, 0 >>),
       d_ratio |-> Single_value_pseudo_raster(2), h_ratio |-> Single_value_pseudo_raster(2)],
      [variant |-> "terraneous", ground |-> GridOf(<< 2, NaN >>),
       d_ratio |-> Single_value_pseudo_raster(2), h_ratio |-> Single_value_pseudo_raster(2)],
      [variant |-> "flexible", ground |-> Single_value_pseudo_raster(0),
       d_ratio |-> GridOf(<< 2, 2 >>), h_ratio |-> GridOf(<< 2, NaN >>)],
      [variant |-> "flexible", ground |-> GridOf(<< 0, 2 >>),
       d_ratio |-> Single_value_pseudo_raster(2), h_ratio |-> Single_value_pseudo_raster(2)] }

MinHeights == { -4, 0, 8 }
ConvergenceDistances == { 0, 1 }

\* what an undefined raster read may produce, besides a crash
GarbageValues == { NaN, 0 }

----------------------------------------------------------------------------
(* State *)

VARIABLES
    points,          \* the input vector
    surface,         \* the surface called, with its rasters
    min_point_height_above_ground,
    centroid_convergence_distance,
    max_num_centroids_per_mode,
    also_return_centroids,
    phase,           \* "build", "start", "iterate", "emit", "return", "done", "crashed"
    indexed_point_cloud,
    point_index,     \* position of the input point being processed
    read,            \* ground height and ratios read at the candidate
    center,          \* s_i, the center of the next kernel
    num_centroids,   \* centroids computed for the current point
    trace,           \* centroids of the current point, in order
    mode,            \* the driver's result for the current point
    outcome,         \* how the current point's driver call ended
    modes, centroids, point_indices,   \* the collected output
    result,          \* what create_return_data returns
    num_modes_before,  \* modes of this batch completed before points[1]
    num_ticks,       \* how often the progress hook was consulted
    cancelled,       \* the hook requested cancellation
    unit             \* one raster, query or kernel operation called on its own

vars == << points, surface, min_point_height_above_ground,
           centroid_convergence_distance, max_num_centroids_per_mode,
           also_return_centroids, phase, indexed_point_cloud, point_index, read,
           center, num_centroids, trace, mode, outcome, modes, centroids,
           point_indices, result, num_modes_before, num_ticks, cancelled, unit >>

inputs == << points, surface, min_point_height_above_ground,
             centroid_convergence_distance, max_num_centroids_per_mode,
             also_return_centroids >>

driver == << read, center, num_centroids, trace, mode, outcome >>

collected == << modes, centroids, point_indices >>

hook == << num_modes_before, num_ticks, cancelled >>

\* ams3d_R_interface_constants::num_modes_per_tick
num_modes_per_tick == 2000

\* the input vector may be the end of a longer batch: the numbers of modes
\* completed before it that bring a tick within reach
ModesBefore == { num_modes_per_tick - 2, num_modes_per_tick - 1 }

\* no operation is called on its own while the pipeline runs
NoUnit == [op |-> "none"]

NoRead == [ground |-> 0, d_ratio |-> 0, h_ratio |-> 0]

InitBatch ==
    /\ points \in PointVectors
    /\ surface \in Surfaces
    /\ min_point_height_above_ground \in MinHeights
    /\ centroid_convergence_distance \in ConvergenceDistances
    /\ max_num_centroids_per_mode \in 1..MaxCentroids
    /\ also_return_centroids \in BOOLEAN
    /\ phase = "build"
    /\ indexed_point_cloud = << >>
    /\ point_index = 1
    /\ read = NoRead
    /\ center = nan_point
    /\ num_centroids = 0
    /\ trace = << >>
    /\ mode = nan_point
    /\ outcome = "none"
    /\ modes = << >>
    /\ centroids = << >>
    /\ point_indices = << >>
    /\ result = [returned |-> FALSE]
    /\ num_ticks = 0
    /\ cancelled = FALSE
    /\ unit = NoUnit

\* a batch given as a whole
Init == InitBatch /\ num_modes_before = 0

\* the last points of a batch of about num_modes_per_tick points
InitTick == InitBatch /\ num_modes_before \in ModesBefore

----------------------------------------------------------------------------
(* Index construction: section 4.7, with the functions of                  *)
(* spatial_index_creation.h                                                *)

\* the index each surface builds, ub being what an undefined read produces
CreateIndex(pts, surf, min_height, ub) ==
    CASE surf.variant = "normalized" -> create_index_of_finite(pts, min_height)
      [] surf.variant = "terraneous" ->
            create_index_of_above_ground(pts, min_height, surf.ground, ub)
      [] surf.variant = "flexible" ->
            create_index_of_above_ground_grid(
                pts, Single_value_pseudo_raster(min_height), surf.ground, ub)

\* the construction reads the ground raster outside its defined range
UndefinedReadInBuild(pts, surf) ==
    /\ surf.variant # "normalized"
    /\ \E j \in 1..Len(pts) :
          /\ ~has_non_finite_coordinate_value(pts[j])
          /\ UndefinedRead(surf.ground, pts[j])

AfterBuild == IF Len(points) = 0 THEN "return" ELSE "start"

BuildIndex ==
    /\ phase = "build"
    /\ \E ub \in GarbageValues :
          indexed_point_cloud' =
              CreateIndex(points, surface, min_point_height_above_ground, ub)
    /\ phase' = AfterBuild
    /\ UNCHANGED << inputs, point_index, driver, collected, result, hook, unit >>

\* an undefined read may also end the process
BuildIndexCrash ==
    /\ phase = "build"
    /\ UndefinedReadInBuild(points, surface)
    /\ phase' = "crashed"
    /\ UNCHANGED << inputs, indexed_point_cloud, point_index, driver, collected, result, hook, unit >>

----------------------------------------------------------------------------
(* The per-point driver: calculate_a_single_mode_plus_centroids, ams3d.h   *)
(* and section 4.6                                                         *)

\* a required raster lookup at the candidate is out of extent or non-finite
LookupFails(R, point) ==
    \/ ~has_value_at_xy_of(R, point)
    \/ ~IsFinite(value_at_xy_of(R, point).value)

\* the candidate's height above ground: z in the normalized surface,
\* z - ground_height_grid.value_at_xy_of( point ) in the others
HeightAboveGround(point, surf) == Sub(point.z, value_at_xy_of(surf.ground, point).value)

\* the short-circuit rejections
ShortCircuit(point, surf, min_height) ==
    IF has_non_finite_coordinate_value(point) THEN TRUE
    ELSE IF LookupFails(surf.ground, point) \/ LookupFails(surf.d_ratio, point)
            \/ LookupFails(surf.h_ratio, point) THEN TRUE
    ELSE Lt(HeightAboveGround(point, surf), min_height)

\* ground height and canopy ratios, read once at the candidate
ReadAtCandidate(point, surf) ==
    [ground  |-> value_at_xy_of(surf.ground, point).value,
     d_ratio |-> value_at_xy_of(surf.d_ratio, point).value,
     h_ratio |-> value_at_xy_of(surf.h_ratio, point).value]

\* a variant of KernelInputs that reads the rasters again under the center,
\* where they hold finite values
KernelInputsAtCenter(candidate_read, s, surf) ==
    IF LookupFails(surf.ground, s) \/ LookupFails(surf.d_ratio, s)
          \/ LookupFails(surf.h_ratio, s)
    THEN candidate_read
    ELSE ReadAtCandidate(s, surf)

\* ground height and ratios of the kernel around center s: the values read at
\* the original candidate, whatever the rasters hold under s
KernelInputs(candidate_read, s, surf) == candidate_read

\* step 4: consecutive centroids converged
Converged(s_next, s, convergence_distance) == DistanceWithin(s_next, s, convergence_distance)

\* a variant of CapReached that stops one centroid early
CapReachedEarly(num_computed, max_num) == num_computed + 1 >= max_num

\* step 5: the centroid just computed was the last one allowed
CapReached(num_computed, max_num) == num_computed = max_num

\* a variant of DegenerateMode that returns the center also at the first step
DegenerateModeKeepsCenter(num_computed, s) == s

\* step 3: the mode of a degenerate step
DegenerateMode(num_computed, s) == IF num_computed = 0 THEN nan_point ELSE s

\* a variant of EmptyTrace that starts the trace with the input point
TraceWithInput(point) == << point >>

\* the trace before the first centroid, and with one more centroid
EmptyTrace(point) == << >>
WithCentroid(tr, s) == Append(tr, s)

\* the loop of the driver from center s with num_computed centroids in tr
RECURSIVE MeanShiftFrom(_, _, _, _, _, _, _, _)
MeanShiftFrom(s, num_computed, tr, rd, surf, point_cloud, convergence_distance, max_num) ==
    LET ki == KernelInputs(rd, s, surf)
        c == calculate_centroid_in(Kernel(s, ki.ground, ki.d_ratio, ki.h_ratio), point_cloud)
    IN  IF ~c.defined
        THEN [mode |-> DegenerateMode(num_computed, s), centroids |-> tr]
        ELSE IF Converged(c.point, s, convergence_distance)
                \/ CapReached(num_computed + 1, max_num)
        THEN [mode |-> c.point, centroids |-> WithCentroid(tr, c.point)]
        ELSE MeanShiftFrom(c.point, num_computed + 1, WithCentroid(tr, c.point), rd, surf,
                           point_cloud, convergence_distance, max_num)

\* the pair calculate_a_single_mode_plus_centroids returns for one point
calculate_a_single_mode_plus_centroids(point, point_cloud, min_height, surf, convergence_distance, max_num) ==
    IF ShortCircuit(point, surf, min_height)
    THEN [mode |-> nan_point, centroids |-> << >>]
    ELSE MeanShiftFrom(point, 0, EmptyTrace(point), ReadAtCandidate(point, surf), surf,
                       point_cloud, convergence_distance, max_num)

StartPoint ==
    /\ phase = "start"
    /\ LET point == points[point_index]
       IN  IF ShortCircuit(point, surface, min_point_height_above_ground)
           THEN /\ mode' = nan_point
                /\ outcome' = "rejected"
                /\ phase' = "emit"
                /\ read' = NoRead
           ELSE /\ mode' = nan_point
                /\ outcome' = "none"
                /\ phase' = "iterate"
                /\ read' = ReadAtCandidate(point, surface)
    /\ center' = points[point_index]
    /\ trace' = EmptyTrace(points[point_index])
    /\ num_centroids' = 0
    /\ UNCHANGED << inputs, indexed_point_cloud, point_index, collected, result, hook, unit >>

\* one pass of the loop: kernel around s_i, centroid, then steps 3 to 6
IterStep ==
    /\ phase = "iterate"
    /\ LET ki == KernelInputs(read, center, surface)
           K == Kernel(center, ki.ground, ki.d_ratio, ki.h_ratio)
           c == calculate_centroid_in(K, indexed_point_cloud)
       IN  IF ~c.defined
           THEN /\ mode' = DegenerateMode(num_centroids, center)
                /\ outcome' = "degenerate"
                /\ phase' = "emit"
                /\ UNCHANGED << center, num_centroids, trace >>
           ELSE /\ trace' = WithCentroid(trace, c.point)
                /\ num_centroids' = num_centroids + 1
                /\ IF Converged(c.point, center, centroid_convergence_distance)
                   THEN /\ mode' = c.point
                        /\ outcome' = "converged"
                        /\ phase' = "emit"
                        /\ UNCHANGED center
                   ELSE IF CapReached(num_centroids + 1, max_num_centroids_per_mode)
                   THEN /\ mode' = c.point
                        /\ outcome' = "cap"
                        /\ phase' = "emit"
                        /\ UNCHANGED center
                   ELSE /\ center' = c.point
                        /\ UNCHANGED << mode, outcome, phase >>
    /\ UNCHANGED << inputs, indexed_point_cloud, point_index, read, collected, result, hook, unit >>

----------------------------------------------------------------------------
(* Orchestration: calculate_modes_normalized / _terraneous / _flexible,    *)
(* section 4.7 and section 6                                               *)

\* a variant of CollectMode that puts the new mode first
CollectModeFront(ms, m) == << m >> \o ms

\* the modes with the mode of one more input point
CollectMode(ms, m) == Append(ms, m)

\* the flat centroids with the trace of one more input point
CollectCentroids(cs, tr) == cs \o tr

\* a variant of CollectIndices that counts the input points from 0
CollectIndicesFromZero(is, tr, idx) == is \o [j \in 1..Len(tr) |-> idx - 1]

\* the input index of each centroid of that trace
CollectIndices(is, tr, idx) == is \o [j \in 1..Len(tr) |-> idx]

\* a variant of HookConsulted that consults the hook after every point
HookConsultedEveryPoint(num_completed) == TRUE

\* the progress hook is consulted when the number of completed modes is a
\* multiple of num_modes_per_tick
HookConsulted(num_completed) == num_completed % num_modes_per_tick = 0

\* the modes returned after a cancellation: the completed ones, then a
\* NaN-point for every unfinished input point
MarkUnfinished(ms, num_points) == ms \o [j \in 1..(num_points - Len(ms)) |-> nan_point]

\* the end of the loop body for one input point: collect its results, then
\* consult the hook if a tick is due
EmitPoint ==
    /\ phase = "emit"
    /\ IF also_return_centroids
       THEN /\ centroids' = CollectCentroids(centroids, trace)
            /\ point_indices' = CollectIndices(point_indices, trace, point_index)
       ELSE UNCHANGED << centroids, point_indices >>
    /\ point_index' = point_index + 1
    /\ IF HookConsulted(num_modes_before + point_index)
       THEN /\ num_ticks' = num_ticks + 1
            /\ \E cancel \in BOOLEAN :
                  /\ cancelled' = cancel
                  /\ modes' = IF cancel
                              THEN MarkUnfinished(CollectMode(modes, mode), Len(points))
                              ELSE CollectMode(modes, mode)
                  /\ phase' = IF cancel \/ point_index = Len(points)
                              THEN "return" ELSE "start"
       ELSE /\ modes' = CollectMode(modes, mode)
            /\ phase' = IF point_index = Len(points) THEN "return" ELSE "start"
            /\ UNCHANGED << num_ticks, cancelled >>
    /\ UNCHANGED << inputs, indexed_point_cloud, driver, result, num_modes_before, unit >>

create_return_data(with_centroids, ms, cs, is) ==
    IF with_centroids
    THEN [returned |-> TRUE, modes |-> ms, centroids |-> cs, point_indices |-> is]
    ELSE [returned |-> TRUE, modes |-> ms]

Return ==
    /\ phase = "return"
    /\ result' = create_return_data(also_return_centroids, modes, centroids, point_indices)
    /\ phase' = "done"
    /\ UNCHANGED << inputs, indexed_point_cloud, point_index, driver, collected, hook, unit >>

Next == BuildIndex \/ BuildIndexCrash \/ StartPoint \/ IterStep \/ EmitPoint \/ Return

Spec == Init /\ [][Next]_vars

\* the same run at the end of a long batch, where ticks happen
SpecTick == InitTick /\ [][Next]_vars

----------------------------------------------------------------------------
(* The raster operations called on their own: spatial_raster.h *)

\* the pipeline's variables, which a single operation leaves alone
pipeline == << inputs, phase, indexed_point_cloud, point_index, driver, collected,
               result, hook >>

\* no pipeline is running
Idle ==
    /\ points = << >>
    /\ surface = [variant |-> "normalized", ground |-> Single_value_pseudo_raster(0),
                  d_ratio |-> Single_value_pseudo_raster(2),
                  h_ratio |-> Single_value_pseudo_raster(2)]
    /\ min_point_height_above_ground = 0
    /\ centroid_convergence_distance = 0
    /\ max_num_centroids_per_mode = 1
    /\ also_return_centroids = FALSE
    /\ phase = "idle"
    /\ indexed_point_cloud = << >>
    /\ point_index = 1
    /\ read = NoRead
    /\ center = nan_point
    /\ num_centroids = 0
    /\ trace = << >>
    /\ mode = nan_point
    /\ outcome = "none"
    /\ modes = << >>
    /\ centroids = << >>
    /\ point_indices = << >>
    /\ result = [returned |-> FALSE]
    /\ num_modes_before = 0
    /\ num_ticks = 0
    /\ cancelled = FALSE

\* the largest finite coordinate of a query point
MaxCoordinate == 7

\* the coordinates of a query point: from two below the smallest raster
\* border to MaxCoordinate, and the non-finite ones
UnitCoordinates == { NaN, NegInf, Inf } \cup (-2..MaxCoordinate)

UnitPoints == { Point3D(px, py, pz) : px \in UnitCoordinates, py \in UnitCoordinates,
                                      pz \in { 0, NaN } }

\* two rows of three cells of 2 x 2, two rows of two cells of 1.5 x 1.5, one
\* row with a NaN cell, and two single-value rasters
UnitRasters ==
    { Raster(<< 10, 11, 12, 13, 14, 15 >>, 2, 3, 0, 6, 0, 4),
      Raster(<< 20, 21, 22, 23 >>, 2, 2, -1, 2, -1, 2),
      Raster(<< 30, NaN >>, 1, 2, 0, 2, 0, 2),
      Single_value_pseudo_raster(3),
      Single_value_pseudo_raster(NaN) }

UnitNewValues ==
    { << >>, << 5 >>, << 5, 6 >>, << 1, 2, 3, 4 >>, << 6, 5, 4, 3, 2, 1 >>, << NaN, 0 >> }

InitRaster ==
    /\ Idle
    /\ unit \in [op : { "none" }, raster : UnitRasters, point : UnitPoints,
                  new_values : UnitNewValues, out : { 0 }]

CallHasValueAt ==
    /\ unit.op = "none"
    /\ unit' = [unit EXCEPT !.op = "has_value_at_xy_of",
                            !.out = has_value_at_xy_of(unit.raster, unit.point)]
    /\ UNCHANGED pipeline

CallValueAt ==
    /\ unit.op = "none"
    /\ unit' = [unit EXCEPT !.op = "value_at_xy_of",
                            !.out = value_at_xy_of(unit.raster, unit.point)]
    /\ UNCHANGED pipeline

\* casting a NaN, an infinite or a negative quotient to std::size_t, or
\* reading _values past its end, is undefined
UndefinedCall(R, point) ==
    /\ R.kind = "grid"
    /\ \/ ~IsFinite(point.x)
       \/ ~IsFinite(point.y)
       \/ UndefinedRead(R, point)

\* what a call of no_throw_value_at_xy_of may do: return the cell's value,
\* or after an undefined read return anything or end the process
NoThrowOutcomes(R, point) ==
    IF UndefinedCall(R, point)
    THEN { [status |-> "undefined", value |-> ub] : ub \in GarbageValues }
           \cup { [status |-> "crashed", value |-> NaN] }
    ELSE { [status |-> "ok", value |-> no_throw_value_at_xy_of(R, point, NaN)] }

CallNoThrowValueAt ==
    /\ unit.op = "none"
    /\ \E out \in NoThrowOutcomes(unit.raster, unit.point) :
          unit' = [unit EXCEPT !.op = "no_throw_value_at_xy_of", !.out = out]
    /\ UNCHANGED pipeline

CallCopyWithNewValues ==
    /\ unit.op = "none"
    /\ unit' = [unit EXCEPT !.op = "copy_w_new_values",
                            !.out = copy_w_new_values(unit.raster, unit.new_values)]
    /\ UNCHANGED pipeline

CallValues ==
    /\ unit.op = "none"
    /\ unit' = [unit EXCEPT !.op = "values", !.out = values(unit.raster)]
    /\ UNCHANGED pipeline

NextRaster ==
    \/ CallHasValueAt
    \/ CallValueAt
    \/ CallNoThrowValueAt
    \/ CallCopyWithNewValues
    \/ CallValues

SpecRaster == InitRaster /\ [][NextRaster]_vars

----------------------------------------------------------------------------
(* The cylinder query called on its own: spatial_util.h *)

\* the longest point cloud of a single query
MaxCloud == 2

QueryPoints == { Point3D(px, py, pz) : px \in 0..2, py \in 0..1, pz \in 0..2 }

QueryClouds == UNION { [1..n -> QueryPoints] : n \in 0..MaxCloud }

\* radius (times 8) and bottom and top height (times 16) of the cylinder
QueryRadii == { 0, 8, 12, 16 }
QueryHeights == { 0, 16, 24, 32 }

InitQuery ==
    /\ Idle
    /\ unit \in [op : { "none" }, point_cloud : QueryClouds,
                  xy_center : { get_xy_point(Point3D(0, 0, 0)), get_xy_point(Point3D(1, 1, 0)) },
                  radius8 : QueryRadii, bottom16 : QueryHeights, top16 : QueryHeights,
                  out : { << >> }]
    /\ unit.bottom16 <= unit.top16

CallCylinderQuery ==
    /\ unit.op = "none"
    /\ unit' = [unit EXCEPT
                  !.op = "get_points_intersecting_vertical_cylinder",
                  !.out = get_points_intersecting_vertical_cylinder(
                              unit.point_cloud, unit.xy_center, unit.radius8,
                              unit.bottom16, unit.top16)]
    /\ UNCHANGED pipeline

NextQuery == CallCylinderQuery

SpecQuery == InitQuery /\ [][NextQuery]_vars

----------------------------------------------------------------------------
(* The kernel constructed on its own: ams3d.h *)

\* centers on, below and above the ground, and one without coordinates
KernelCenters ==
    { Point3D(px, 0, pz) : px \in { 0, 1 }, pz \in { -4, 0, 1, 8, 10 } } \cup { nan_point }

\* ground heights, and ratios in quarters: 0.25, 0.5, 0.75 and 5
KernelGrounds == { 0, 2 }
KernelRatios == { 1, 2, 3, 20 }

InitKernel ==
    /\ Idle
    /\ unit \in [op : { "none" }, center : KernelCenters,
                  ground_height_at_center : KernelGrounds,
                  crown_diameter_to_tree_height : KernelRatios,
                  crown_height_to_tree_height : KernelRatios, out : { 0 }]

CallKernel ==
    /\ unit.op = "none"
    /\ unit' = [unit EXCEPT
                  !.op = "_Kernel",
                  !.out = Kernel(unit.center, unit.ground_height_at_center,
                                 unit.crown_diameter_to_tree_height,
                                 unit.crown_height_to_tree_height)]
    /\ UNCHANGED pipeline

CallBottomHeight ==
    /\ unit.op = "none"
    /\ ~has_non_finite_coordinate_value(unit.center)
    /\ unit' = [unit EXCEPT
                  !.op = "bottom_height_above_ground_with",
                  !.out = bottom_height_above_ground_with(
                              unit.center.z - unit.ground_height_at_center,
                              unit.crown_height_to_tree_height)]
    /\ UNCHANGED pipeline

NextKernel == CallKernel \/ CallBottomHeight

SpecKernel == InitKernel /\ [][NextKernel]_vars

----------------------------------------------------------------------------
(* The filtered iterators used on their own, as the range constructor of   *)
(* the index uses them: spatial_index_creation.h                           *)

\* the longest vector iterated over
MaxVector == 2

\* the input points, and one left of every raster
IteratorPoints == PointValues \cup { Point3D(-1, 0, 8) }

IteratorVectors == UNION { [1..n -> IteratorPoints] : n \in 0..MaxVector }

\* the arguments of cbegin for each of the three classes
IteratorArguments ==
    { [cls |-> "above_height", min_height |-> m, min_grid |-> NullRaster,
       ground |-> NullRaster] : m \in { 0, 8 } }
    \cup { [cls |-> "above_ground", min_height |-> m, min_grid |-> NullRaster,
            ground |-> g] : m \in { 0, 8 }, g \in { GridOf(<< 0, 2 >>), GridOf(<< 2, NaN >>) } }
    \cup { [cls |-> "height_grid", min_height |-> 0, min_grid |-> mg, ground |-> g] :
               mg \in { Single_value_pseudo_raster(8), GridOf(<< 0, NaN >>) },
               g \in { Single_value_pseudo_raster(0), GridOf(<< 0, 2 >>) } }

\* an iterator that has not been constructed
NoIterator == [cls |-> "none"]

\* cbegin( points, ... ) of the class: pointers to the first element and past
\* the last one, the caller's minimum and rasters
cbegin(cls, args, pts, ub) ==
    CASE cls = "above_height" ->
            AboveHeight_iterator(1, Len(pts) + 1, args.min_height, pts)
      [] cls = "above_ground" ->
            AboveGround_iterator(1, Len(pts) + 1, args.min_height, args.ground, pts, ub)
      [] cls = "height_grid" ->
            HeightGrid_iterator(1, Len(pts) + 1, args.min_grid, args.ground, pts, ub)

\* cend( points ) of the class: both pointers past the last element; the two
\* raster classes pass 0 and nullptr
cend(cls, args, pts, ub) ==
    CASE cls = "above_height" ->
            AboveHeight_iterator(Len(pts) + 1, Len(pts) + 1, args.min_height, pts)
      [] cls = "above_ground" ->
            AboveGround_iterator(Len(pts) + 1, Len(pts) + 1, 0, NullRaster, pts, ub)
      [] cls = "height_grid" ->
            HeightGrid_iterator(Len(pts) + 1, Len(pts) + 1, NullRaster, NullRaster, pts, ub)

ElementAccess(ptr) == [access |-> "element", ptr |-> ptr, raster |-> NullRaster]
RasterAccess(ptr, R) == [access |-> "raster", ptr |-> ptr, raster |-> R]

\* a variant of AccessesOfSkip that tests for the end pointer after the reads
AccessesOfSkipEndTestedLast(it, pts) ==
    << ElementAccess(it.ptr) >> \o
    (CASE it.cls = "above_height" -> << >>
       [] it.cls = "above_ground" -> << RasterAccess(it.ptr, it.ground) >>
       [] it.cls = "height_grid" ->
             << RasterAccess(it.ptr, it.ground), RasterAccess(it.ptr, it.min_grid) >>)

\* what one call of _skip_current_point dereferences, in order: nothing at
\* the end pointer, the element for the test of its coordinates, and for a
\* finite element of the raster classes the ground raster and then the
\* minimum-height raster
AccessesOfSkip(it, pts) ==
    IF it.ptr = it.end_ptr THEN << >>
    ELSE IF has_non_finite_coordinate_value(pts[it.ptr]) THEN << ElementAccess(it.ptr) >>
    ELSE << ElementAccess(it.ptr) >> \o
         (CASE it.cls = "above_height" -> << >>
            [] it.cls = "above_ground" -> << RasterAccess(it.ptr, it.ground) >>
            [] it.cls = "height_grid" ->
                  << RasterAccess(it.ptr, it.ground), RasterAccess(it.ptr, it.min_grid) >>)

\* the accesses of while (_skip_current_point()) { _ptr++; } from it
RECURSIVE AccessesOfSkipLoop(_, _, _)
AccessesOfSkipLoop(it, pts, ub) ==
    AccessesOfSkip(it, pts) \o
    (IF skip_current_point(it, pts, ub)
     THEN AccessesOfSkipLoop([it EXCEPT !.ptr = it.ptr + 1], pts, ub)
     ELSE << >>)

\* one of the raster reads is undefined
UndefinedAmong(accesses, pts) ==
    \E k \in 1..Len(accesses) :
        /\ accesses[k].access = "raster"
        /\ UndefinedRead(accesses[k].raster, pts[accesses[k].ptr])

InitIterator ==
    /\ Idle
    /\ unit \in [op : { "none" }, args : IteratorArguments, pts : IteratorVectors,
                  ub : GarbageValues, first : { NoIterator }, last : { NoIterator },
                  yielded : { << >> }, num_increments : { 0 }, accesses : { << >> }]

\* first = cbegin( points, ... ); an undefined read of the constructor's loop
\* may end the process
CallCbegin ==
    /\ unit.op # "crashed"
    /\ unit.first = NoIterator
    /\ LET it == cbegin(unit.args.cls, unit.args, unit.pts, unit.ub)
           touched == AccessesOfSkipLoop([it EXCEPT !.ptr = 1], unit.pts, unit.ub)
       IN  \/ unit' = [unit EXCEPT !.op = "cbegin", !.first = it,
                                   !.accesses = unit.accesses \o touched]
           \/ /\ UndefinedAmong(touched, unit.pts)
              /\ unit' = [unit EXCEPT !.op = "crashed",
                                      !.accesses = unit.accesses \o touched]
    /\ UNCHANGED pipeline

\* last = cend( points )
CallCend ==
    /\ unit.op # "crashed"
    /\ unit.last = NoIterator
    /\ LET it == cend(unit.args.cls, unit.args, unit.pts, unit.ub)
           touched == AccessesOfSkipLoop(it, unit.pts, unit.ub)
       IN  unit' = [unit EXCEPT !.op = "cend", !.last = it,
                                !.accesses = unit.accesses \o touched]
    /\ UNCHANGED pipeline

\* one pass of the range constructor's loop: first != last, so *first is read
\* and first is incremented
ReadAndIncrement ==
    /\ unit.op # "crashed"
    /\ unit.first # NoIterator
    /\ unit.last # NoIterator
    /\ ~IteratorEq(unit.first, unit.last)
    /\ LET it == Increment(unit.first, unit.pts, unit.ub)
           touched == << ElementAccess(unit.first.ptr) >> \o
                      AccessesOfSkipLoop([unit.first EXCEPT !.ptr = unit.first.ptr + 1],
                                         unit.pts, unit.ub)
       IN  \/ unit' = [unit EXCEPT !.op = "increment", !.first = it,
                                   !.yielded = Append(unit.yielded, unit.pts[unit.first.ptr]),
                                   !.num_increments = unit.num_increments + 1,
                                   !.accesses = unit.accesses \o touched]
           \/ /\ UndefinedAmong(touched, unit.pts)
              /\ unit' = [unit EXCEPT !.op = "crashed",
                                      !.accesses = unit.accesses \o touched]
    /\ UNCHANGED pipeline

NextIterator == CallCbegin \/ CallCend \/ ReadAndIncrement

SpecIterator == InitIterator /\ [][NextIterator]_vars

----------------------------------------------------------------------------
(* Properties of the per-point driver *)

\* the input point the driver is working on or has just finished
CurrentPoint == points[point_index]

\* the driver has been entered for CurrentPoint
DriverActive == phase \in { "iterate", "emit" }

NonFinite(v) == v = NaN \/ v = Inf \/ v = NegInf

\* the raster holds a finite value under the point
FiniteValueUnder(R, point) ==
    /\ has_value_at_xy_of(R, point)
    /\ ~NonFinite(value_at_xy_of(R, point).value)

GroundUnder(point) == value_at_xy_of(surface.ground, point).value

FiniteCoordinates(point) ==
    ~NonFinite(point.x) /\ ~NonFinite(point.y) /\ ~NonFinite(point.z)

\* the driver has returned the NaN-point with an empty trace and has not
\* computed a centroid
RejectedResult ==
    /\ phase = "emit"
    /\ mode = nan_point
    /\ trace = << >>
    /\ num_centroids = 0

\* C1: a candidate with a non-finite coordinate, or with a height above
\* ground strictly below min_point_height_above_ground, gets the NaN-point,
\* an empty trace and no centroid; a candidate exactly at the minimum (with
\* finite raster values under it) is not rejected.
C1_ShortCircuitRejection ==
    DriverActive =>
        /\ ~FiniteCoordinates(CurrentPoint) => RejectedResult
        /\ ( /\ FiniteCoordinates(CurrentPoint)
             /\ FiniteValueUnder(surface.ground, CurrentPoint)
             /\ CurrentPoint.z - GroundUnder(CurrentPoint) < min_point_height_above_ground )
           => RejectedResult
        /\ ( /\ FiniteCoordinates(CurrentPoint)
             /\ FiniteValueUnder(surface.ground, CurrentPoint)
             /\ FiniteValueUnder(surface.d_ratio, CurrentPoint)
             /\ FiniteValueUnder(surface.h_ratio, CurrentPoint)
             /\ CurrentPoint.z - GroundUnder(CurrentPoint) = min_point_height_above_ground )
           => outcome # "rejected"

\* a candidate of a ground-raster surface, 6 above a ground of 2 and below
\* the minimum of 8, has been rejected
C1_Witness ==
    /\ RejectedResult
    /\ surface.variant = "terraneous"
    /\ FiniteCoordinates(CurrentPoint)
    /\ GroundUnder(CurrentPoint) = 2
    /\ CurrentPoint.z - 2 < min_point_height_above_ground

\* the last step of the driver stopped at the cap: the Nth centroid is
\* farther than the convergence distance from the center before it
StoppedByCap ==
    /\ phase = "emit"
    /\ outcome = "cap"

\* C2 (as claimed): the trace never holds more than N centroids, and a run
\* that neither converges nor degenerates within N iterations stops after
\* exactly N centroids with a non-NaN mode equal to s_N.
C2_IterationCap ==
    /\ Len(trace) <= max_num_centroids_per_mode
    /\ num_centroids <= max_num_centroids_per_mode
    /\ StoppedByCap =>
          /\ num_centroids = max_num_centroids_per_mode
          /\ Len(trace) = max_num_centroids_per_mode
          /\ mode = trace[max_num_centroids_per_mode]
          /\ FiniteCoordinates(mode)

C4_ModeIsLastTracePoint ==
    /\ DriverActive => Len(trace) = num_centroids
    /\ (phase = "iterate" /\ num_centroids >= 1) => center = trace[Len(trace)]
    /\ (phase = "iterate" /\ num_centroids = 0) => (center = CurrentPoint /\ trace = << >>)
    /\ (phase = "emit" /\ trace # << >> /\ outcome # "cap") => mode = trace[Len(trace)]

\* a run that converged at its first centroid, which is not the input point
C4_Witness ==
    /\ phase = "emit"
    /\ outcome = "converged"
    /\ Len(trace) = 1
    /\ mode = trace[1]
    /\ mode # CurrentPoint

\* C5 (as claimed): the trace length equals N if and only if the iteration
\* was stopped by the cap rather than by the convergence test.
C5_TraceLengthTellsCap ==
    (phase = "emit" /\ outcome \in { "converged", "cap" }) =>
        (Len(trace) = max_num_centroids_per_mode <=> outcome = "cap")

\* C5 (amended): a run stopped by the cap has a trace of length N with its
\* last two centers farther apart than epsilon; a trace shorter than N means
\* the run was not stopped by the cap; a trace of length N also results from
\* convergence at the Nth centroid.
C5_TraceLengthAmended ==
    phase = "emit" =>
        /\ outcome = "cap" =>
              /\ Len(trace) = max_num_centroids_per_mode
              /\ ~( /\ FiniteCoordinates(mode)
                    /\ FiniteCoordinates(center)
                    /\ SquaredDistance3D(mode, center)
                          <= centroid_convergence_distance * centroid_convergence_distance )
        /\ Len(trace) < max_num_centroids_per_mode
              => outcome \in { "converged", "degenerate", "rejected" }
        /\ Len(trace) = max_num_centroids_per_mode
              => outcome \in { "converged", "cap" }

\* a run with N = 2 stopped by the cap with a finite mode
C5_Witness ==
    /\ StoppedByCap
    /\ max_num_centroids_per_mode = 2
    /\ Len(trace) = 2
    /\ FiniteCoordinates(mode)


\* the kernel query of the pending step, and whether that step is degenerate
PendingPoints ==
    find_intersecting_points_in(
        Kernel(center, read.ground, read.d_ratio, read.h_ratio), indexed_point_cloud)

PendingWeightSum ==
    SumWeights(Weights(Kernel(center, read.ground, read.d_ratio, read.h_ratio),
                       PendingPoints))

PendingDegenerate == PendingPoints = << >> \/ PendingWeightSum = 0

Accepted(point) ==
    /\ FiniteCoordinates(point)
    /\ FiniteValueUnder(surface.ground, point)
    /\ FiniteValueUnder(surface.d_ratio, point)
    /\ FiniteValueUnder(surface.h_ratio, point)
    /\ point.z - GroundUnder(point) >= min_point_height_above_ground

\* C7 (as claimed): an input point with finite coordinates, finite raster
\* values under it and a height above ground >= the minimum has a mode of
\* three finite coordinates, unless its first iteration was degenerate.
C7_ModeFiniteness ==
    ( /\ phase = "emit"
      /\ Accepted(CurrentPoint)
      /\ ~(outcome = "degenerate" /\ num_centroids = 0) )
    => FiniteCoordinates(mode)

\* the points the filter of the surface is claimed to keep
KeptByFilter(point) ==
    /\ FiniteCoordinates(point)
    /\ FiniteValueUnder(surface.ground, point)
    /\ point.z - GroundUnder(point) >= min_point_height_above_ground

\* C8 (as claimed): the index holds exactly the input points, in order and
\* with multiplicity, that have finite coordinates, a finite ground value
\* and a height above ground >= the minimum.
C8_FilterExactness ==
    phase \notin { "build", "crashed" } =>
        indexed_point_cloud = SelectSeq(points, KeptByFilter)

\* what the driver returns for input point j
DriverResult(j) ==
    calculate_a_single_mode_plus_centroids(
        points[j], indexed_point_cloud, min_point_height_above_ground, surface,
        centroid_convergence_distance, max_num_centroids_per_mode)

\* C9: the modes collected so far are the modes of the first input points,
\* position by position; a rejected input holds the NaN-point at its own
\* position; the returned modes are as many as the input points.
C9_OutputAlignment ==
    /\ phase \in { "start", "iterate", "emit" } => Len(modes) = point_index - 1
    /\ phase \in { "return", "done" } => Len(modes) = Len(points)
    /\ \A j \in 1..Len(modes) :
          /\ modes[j] = DriverResult(j).mode
          /\ ~Accepted(points[j]) => modes[j] = nan_point
    /\ phase = "done" => (result.returned /\ result.modes = modes)

\* two input points returned: the first rejected for a non-finite
\* coordinate, the second with a finite mode
C9_Witness ==
    /\ phase = "done"
    /\ Len(points) = 2
    /\ ~FiniteCoordinates(points[1])
    /\ result.modes[1] = nan_point
    /\ FiniteCoordinates(result.modes[2])

\* the entries of cs at the positions where is holds idx
EntriesOf(cs, is, idx) ==
    LET RECURSIVE Pick(_)
        Pick(k) ==
            IF k > Len(cs) THEN << >>
            ELSE (IF is[k] = idx THEN << cs[k] >> ELSE << >>) \o Pick(k + 1)
    IN  Pick(1)

\* C10: with centroids requested, centroids and point_indices are equally
\* long, point_indices never decreases, the entries with index j are the
\* trace of input point j in order, at most N of them, and none for a
\* rejected input point.
C10_FlatCentroids ==
    (phase = "done" /\ also_return_centroids) =>
        /\ Len(result.centroids) = Len(result.point_indices)
        /\ \A a, b \in 1..Len(result.point_indices) :
              a <= b => result.point_indices[a] <= result.point_indices[b]
        /\ \A k \in 1..Len(result.point_indices) :
              result.point_indices[k] \in 1..Len(points)
        /\ \A j \in 1..Len(points) :
              /\ EntriesOf(result.centroids, result.point_indices, j)
                    = DriverResult(j).centroids
              /\ Len(EntriesOf(result.centroids, result.point_indices, j))
                    <= max_num_centroids_per_mode
              /\ ~Accepted(points[j])
                    => EntriesOf(result.centroids, result.point_indices, j) = << >>

\* two input points returned with two centroids of the first and one of the
\* second
C10_Witness ==
    /\ phase = "done"
    /\ also_return_centroids
    /\ result.point_indices = << 1, 1, 2 >>
    /\ result.centroids[1] # result.centroids[2]

----------------------------------------------------------------------------
(* Properties of the progress hook, checked where ticks happen (SpecTick) *)

\* the modes of the whole batch completed once the current point is emitted
NumCompleted == num_modes_before + point_index

\* C11: the progress hook is consulted exactly when the number of completed
\* points becomes a multiple of 2000; cancellation happens only there, stops
\* the driver at once, keeps the modes of the completed points and reports
\* every unfinished point as the NaN-point, one mode per input point.
C11_CooperativeCancellation ==
    /\ [][ /\ (num_ticks' # num_ticks)
                <=> (phase = "emit" /\ NumCompleted % 2000 = 0)
           /\ (cancelled' /\ ~cancelled) =>
                /\ num_ticks' = num_ticks + 1
                /\ phase' = "return"
                /\ SubSeq(modes', 1, Len(modes)) = modes
                /\ modes'[point_index] = mode
           /\ cancelled => (phase' \in { "return", "done" } /\ modes' = modes) ]_vars
    /\ [](cancelled =>
            /\ Len(modes) = Len(points)
            /\ \A j \in 1..Len(points) :
                  modes[j] = IF j < point_index THEN DriverResult(j).mode ELSE nan_point
            /\ phase = "done" => result.modes = modes)

\* a run cancelled after its first point: the first mode is kept, and the
\* second point, which has a finite mode, is reported as the NaN-point
C11_Witness ==
    /\ phase = "done"
    /\ cancelled
    /\ Len(points) = 2
    /\ point_index = 2
    /\ FiniteCoordinates(result.modes[1])
    /\ FiniteCoordinates(DriverResult(2).mode)
    /\ result.modes[2] = nan_point

----------------------------------------------------------------------------
(* Properties of the pipeline as a whole *)

\* the modes of all input points computed over the index point_cloud
ModesOver(point_cloud) ==
    [j \in 1..Len(points) |->
        calculate_a_single_mode_plus_centroids(
            points[j], point_cloud, min_point_height_above_ground, surface,
            centroid_convergence_distance, max_num_centroids_per_mode).mode]

\* C12 (as claimed): the returned modes are the ones the input points,
\* rasters and parameters determine, whatever else may vary between two runs;
\* each collected mode is the driver's result for its own point over the
\* index, and once built the index and the rasters never change.
C12_Determinism ==
    /\ [](phase = "done" =>
            \A ub \in GarbageValues :
                result.modes = ModesOver(
                    CreateIndex(points, surface, min_point_height_above_ground, ub)))
    /\ [](\A j \in 1..Len(modes) : j < point_index => modes[j] = ModesOver(indexed_point_cloud)[j])
    /\ [][ phase # "build" =>
             (indexed_point_cloud' = indexed_point_cloud /\ surface' = surface) ]_vars

----------------------------------------------------------------------------
(* Properties of the rasters, checked on single calls (SpecRaster) *)

\* x and y are numbers inside the closed rectangle of the grid raster R
InRectangle(R, point) ==
    /\ IsFinite(point.x)
    /\ IsFinite(point.y)
    /\ R.x_min <= point.x
    /\ point.x <= R.x_max
    /\ R.y_min <= point.y
    /\ point.y <= R.y_max

\* C13: for a grid raster, has_value_at_xy_of is true exactly for x and y in
\* the closed rectangle, whatever z is; value_at_xy_of throws runtime_error
\* for a NaN x or y (also outside the rectangle), out_of_range for any other
\* location outside, and otherwise returns what the unchecked read returns;
\* it succeeds exactly when has_value_at_xy_of is true.
C13_RasterLookupContract ==
    unit.raster.kind = "grid" =>
        /\ unit.op = "has_value_at_xy_of" =>
              /\ unit.out <=> InRectangle(unit.raster, unit.point)
              /\ \A pz \in { 0, 5, NaN, Inf } :
                    unit.out <=> has_value_at_xy_of(
                        unit.raster, Point3D(unit.point.x, unit.point.y, pz))
        /\ unit.op = "value_at_xy_of" =>
              /\ (IsNaN(unit.point.x) \/ IsNaN(unit.point.y))
                    => unit.out.status = "runtime_error"
              /\ (/\ ~IsNaN(unit.point.x)
                  /\ ~IsNaN(unit.point.y)
                  /\ ~InRectangle(unit.raster, unit.point))
                    => unit.out.status = "out_of_range"
              /\ InRectangle(unit.raster, unit.point) =>
                    /\ unit.out.status = "ok"
                    /\ NoThrowOutcomes(unit.raster, unit.point)
                          = { [status |-> "ok", value |-> unit.out.value] }
              /\ unit.out.status = "ok" <=> has_value_at_xy_of(unit.raster, unit.point)

\* a lookup with a NaN x and a y outside the extent fails for the NaN
C13_Witness ==
    /\ unit.op = "value_at_xy_of"
    /\ unit.raster.kind = "grid"
    /\ IsNaN(unit.point.x)
    /\ IsFinite(unit.point.y)
    /\ unit.point.y > unit.raster.y_max
    /\ unit.out.status = "runtime_error"


\* floor( (y_max - y) / row_height ) and floor( (x - x_min) / col_width ) for
\* a point in the rectangle, from the definition of floor
FloorRow(R, point) ==
    CHOOSE r \in 0..R.num_rows :
        /\ r * (R.y_max - R.y_min) <= (R.y_max - point.y) * R.num_rows
        /\ (R.y_max - point.y) * R.num_rows < (r + 1) * (R.y_max - R.y_min)

FloorCol(R, point) ==
    CHOOSE c \in 0..R.num_cols :
        /\ c * (R.x_max - R.x_min) <= (point.x - R.x_min) * R.num_cols
        /\ (point.x - R.x_min) * R.num_cols < (c + 1) * (R.x_max - R.x_min)

\* C14: for a point in the closed extent the unchecked read is defined and
\* returns values[num_cols * row + col], row and col being the floors of the
\* claim, lowered by one only for y = y_min and x = x_max; the flat index is
\* inside values, and a point on an interior cell boundary belongs to the
\* cell with the larger row or column index.
C14_CellAddressing ==
    ( /\ unit.op = "no_throw_value_at_xy_of"
      /\ unit.raster.kind = "grid"
      /\ InRectangle(unit.raster, unit.point) ) =>
        LET R == unit.raster
            fr == FloorRow(R, unit.point)
            fc == FloorCol(R, unit.point)
            row == IF fr = R.num_rows THEN R.num_rows - 1 ELSE fr
            col == IF fc = R.num_cols THEN R.num_cols - 1 ELSE fc
        IN  /\ fr = R.num_rows <=> unit.point.y = R.y_min
            /\ fc = R.num_cols <=> unit.point.x = R.x_max
            /\ R.num_cols * row + col \in 0..(Len(R.values) - 1)
            /\ unit.out = [status |-> "ok", value |-> R.values[R.num_cols * row + col + 1]]
            /\ \A k \in 1..(R.num_rows - 1) :
                  (R.y_max - unit.point.y) * R.num_rows = k * (R.y_max - R.y_min)
                      => row = k
            /\ \A k \in 1..(R.num_cols - 1) :
                  (unit.point.x - R.x_min) * R.num_cols = k * (R.x_max - R.x_min)
                      => col = k

\* a point on the corner shared by four cells reads the lower right one
C14_Witness ==
    /\ unit.op = "no_throw_value_at_xy_of"
    /\ unit.raster = Raster(<< 10, 11, 12, 13, 14, 15 >>, 2, 3, 0, 6, 0, 4)
    /\ unit.point.x = 2
    /\ unit.point.y = 2
    /\ unit.out = [status |-> "ok", value |-> 14]


\* C15: copy_w_new_values of a grid raster throws when the number of new
\* values differs from the number of cells; otherwise it returns a grid
\* raster of the same rows, columns and extent holding the new values, which
\* has a value at the same points and as many values as cells; the raster
\* copied from is the same after the call in both cases.
C15_CopyWithNewValues ==
    /\ []( (unit.op = "copy_w_new_values" /\ unit.raster.kind = "grid") =>
             IF Len(unit.new_values) # Len(values(unit.raster))
             THEN unit.out = [status |-> "runtime_error", raster |-> NullCopy]
             ELSE /\ unit.out.status = "ok"
                  /\ unit.out.raster.kind = "grid"
                  /\ unit.out.raster.num_rows = unit.raster.num_rows
                  /\ unit.out.raster.num_cols = unit.raster.num_cols
                  /\ unit.out.raster.x_min = unit.raster.x_min
                  /\ unit.out.raster.x_max = unit.raster.x_max
                  /\ unit.out.raster.y_min = unit.raster.y_min
                  /\ unit.out.raster.y_max = unit.raster.y_max
                  /\ values(unit.out.raster) = unit.new_values
                  /\ unit.out.raster.num_rows * unit.out.raster.num_cols
                        = Len(values(unit.out.raster))
                  /\ \A point \in UnitPoints :
                        has_value_at_xy_of(unit.out.raster, point)
                            <=> has_value_at_xy_of(unit.raster, point) )
    /\ [][ unit'.raster = unit.raster ]_vars

\* a copy of the 2 x 3 raster with six other values
C15_Witness ==
    /\ unit.op = "copy_w_new_values"
    /\ unit.raster.kind = "grid"
    /\ unit.out.status = "ok"
    /\ Len(values(unit.out.raster)) = 6
    /\ values(unit.out.raster) # values(unit.raster)


\* C16: a single-value raster has a value at every point, also one with NaN
\* or infinite coordinates; value_at_xy_of and no_throw_value_at_xy_of return
\* the stored value without failing; values() is that one value;
\* copy_w_new_values throws unless given exactly one value, and then returns
\* a single-value raster holding it.
C16_SingleValueRaster ==
    \A v \in { 3, NaN } :
        unit.raster = Single_value_pseudo_raster(v) =>
            /\ unit.op = "has_value_at_xy_of" => unit.out = TRUE
            /\ unit.op = "value_at_xy_of" => unit.out = [status |-> "ok", value |-> v]
            /\ unit.op = "no_throw_value_at_xy_of"
                  => unit.out = [status |-> "ok", value |-> v]
            /\ unit.op = "values" => unit.out = << v >>
            /\ unit.op = "copy_w_new_values" =>
                  IF Len(unit.new_values) # 1
                  THEN unit.out = [status |-> "runtime_error", raster |-> NullCopy]
                  ELSE /\ unit.out.status = "ok"
                       /\ unit.out.raster.kind = "single"
                       /\ values(unit.out.raster) = << unit.new_values[1] >>
                       /\ \A point \in UnitPoints :
                             value_at_xy_of(unit.out.raster, point)
                                 = [status |-> "ok", value |-> unit.new_values[1]]

\* the stored value is returned for a point with NaN x and infinite y
C16_Witness ==
    /\ unit.op = "value_at_xy_of"
    /\ unit.raster = Single_value_pseudo_raster(3)
    /\ IsNaN(unit.point.x)
    /\ unit.point.y = Inf
    /\ unit.out = [status |-> "ok", value |-> 3]

----------------------------------------------------------------------------
(* Properties of the cylinder query, checked on single calls (SpecQuery) *)

\* how often the point occurs in the sequence
CountOf(seq, point) == Cardinality({ k \in DOMAIN seq : seq[k] = point })

\* the exact predicate of the claim, in eighths and sixteenths
InCylinder(point) ==
    /\ 64 * ((point.x - unit.xy_center.x) * (point.x - unit.xy_center.x)
               + (point.y - unit.xy_center.y) * (point.y - unit.xy_center.y))
          <= unit.radius8 * unit.radius8
    /\ unit.bottom16 <= 16 * point.z
    /\ 16 * point.z <= unit.top16

\* C17: the query returns exactly the indexed points, with multiplicity,
\* whose horizontal distance to the center is <= the radius and whose z is
\* between bottom and top, all three inclusive; the bounding box holds every
\* such point, and the horizontal test does not depend on z.
C17_CylinderQuery ==
    unit.op = "get_points_intersecting_vertical_cylinder" =>
        /\ \A point \in QueryPoints :
              CountOf(unit.out, point)
                  = IF InCylinder(point) THEN CountOf(unit.point_cloud, point) ELSE 0
        /\ \A point \in QueryPoints :
              InCylinder(point) =>
                  InQueryBox(unit.xy_center, unit.radius8, unit.bottom16, unit.top16, point)
        /\ \A point \in QueryPoints, pz \in 0..2 :
              within_xy_distance_functor(unit.xy_center, unit.radius8, point)
                  <=> within_xy_distance_functor(unit.xy_center, unit.radius8,
                                                 Point3D(point.x, point.y, pz))

\* a cylinder of radius 1 around (0, 0) from height 1 to 2 returns the point
\* on its rim and at its top, and not the point in the corner of its box
C17_Witness ==
    /\ unit.op = "get_points_intersecting_vertical_cylinder"
    /\ unit.xy_center = get_xy_point(Point3D(0, 0, 0))
    /\ unit.radius8 = 8
    /\ unit.bottom16 = 16
    /\ unit.top16 = 32
    /\ unit.point_cloud = << Point3D(1, 0, 2), Point3D(1, 1, 1) >>
    /\ unit.out = << Point3D(1, 0, 2) >>

----------------------------------------------------------------------------
(* Properties of the kernel, checked on single constructions (SpecKernel). *)
(* h is the center's height above ground; the ratios are in quarters, the  *)
(* radius in eighths and the elevations in sixteenths.                     *)

UnitHeight == unit.center.z - unit.ground_height_at_center

\* 16 * max(0, h - H / 4) with H = h * h_ratio
UnitBottom16 ==
    IF 16 * UnitHeight - UnitHeight * unit.crown_height_to_tree_height < 0 THEN 0
    ELSE 16 * UnitHeight - UnitHeight * unit.crown_height_to_tree_height

\* C18: the kernel around a center of height h above ground g has height
\* H = h * h_ratio, radius h * d_ratio / 2, bottom g + max(0, h - H / 4),
\* top = bottom + H and center elevation = bottom + H / 2, also when the
\* bottom is the ground; bottom_height_above_ground_with returns
\* max(0, h - h * h_ratio * 0.25).
C18_KernelGeometry ==
    /\ unit.op = "bottom_height_above_ground_with" => unit.out = UnitBottom16
    /\ (unit.op = "_Kernel" /\ ~has_non_finite_coordinate_value(unit.center)) =>
          /\ 4 * unit.out.height16 = 16 * UnitHeight * unit.crown_height_to_tree_height
          /\ 8 * unit.out.radius8 = 8 * UnitHeight * unit.crown_diameter_to_tree_height
          /\ unit.out.bottom16 = 16 * unit.ground_height_at_center + UnitBottom16
          /\ unit.out.top16 = unit.out.bottom16 + unit.out.height16
          /\ 2 * unit.out.center16 = 2 * unit.out.bottom16 + unit.out.height16
          /\ unit.out.xy_center = [x |-> unit.center.x, y |-> unit.center.y]

\* a kernel whose bottom is held at the ground (h = 8, h_ratio = 5, g = 2):
\* it keeps its full height of 40 above the ground
C18_Witness ==
    /\ unit.op = "_Kernel"
    /\ unit.center.z = 10
    /\ unit.ground_height_at_center = 2
    /\ unit.crown_height_to_tree_height = 20
    /\ unit.out.bottom16 = 32
    /\ unit.out.top16 = 32 + 16 * 40
    /\ unit.out.center16 = 32 + 16 * 20

----------------------------------------------------------------------------
(* Properties of the kernels of the driver (Spec) *)

\* the kernel the driver constructs for its pending iteration
PendingKernel == Kernel(center, read.ground, read.d_ratio, read.h_ratio)

\* C19 (as claimed): every kernel the driver constructs for a candidate that
\* passed the short-circuit rejections, whatever minimum height the caller
\* passed, has a radius > 0, a height > 0 and top >= center >= bottom.
C19_KernelInvariants ==
    phase = "iterate" =>
        /\ Lt(0, PendingKernel.radius8)
        /\ Lt(0, PendingKernel.height16)
        /\ Le(PendingKernel.center16, PendingKernel.top16)
        /\ Le(PendingKernel.bottom16, PendingKernel.center16)

\* C20 (as claimed): every point the query of the driver's kernel returns has
\* relative squared distances s_h = d_xy^2 / r^2 and s_v = d_z^2 / (H/2)^2
\* between 0 and 1, and its weight is (1 - s_h) * exp(-5 * s_v), between 0
\* and 1 (here times r^2 * 1000, in eighths).
C20_PointWeights ==
    phase = "iterate" =>
        \A k \in 1..Len(PendingPoints) :
            LET K == PendingKernel
                point == PendingPoints[k]
                r2 == K.radius8 * K.radius8
                half2 == (K.height16 \div 2) * (K.height16 \div 2)
                dxy2 == 64 * ((point.x - K.xy_center.x) * (point.x - K.xy_center.x)
                                + (point.y - K.xy_center.y) * (point.y - K.xy_center.y))
                dz2 == (16 * point.z - K.center16) * (16 * point.z - K.center16)
                w == calculate_point_weight_of(K, point)
            IN  /\ r2 > 0
                /\ half2 > 0
                /\ 0 <= dxy2 /\ dxy2 <= r2
                /\ 0 <= dz2 /\ dz2 <= half2
                /\ ~IsNaN(w)
                /\ w = (r2 - dxy2) * GaussTable[((10 * dz2) \div half2) + 1]
                /\ 0 <= w /\ w <= r2 * 1000

----------------------------------------------------------------------------
(* Properties of the driver over the rasters (Spec) *)

\* the raster with value v in every cell that does not contain the point
AlterOtherCells(R, point, v) ==
    IF R.kind = "single" THEN R
    ELSE [R EXCEPT !.values =
             [k \in 1..Len(R.values) |->
                 IF has_value_at_xy_of(R, point) /\ k = FlatIndex(R, point) + 1
                 THEN R.values[k] ELSE v]]

\* values written to the other cells: one above every input point, and NaN
OtherCellValues == { 12, NaN }

\* the surfaces that agree with the surface called in the cells under the point
SurfacesAgreeingAt(point) ==
    { [surface EXCEPT !.ground = AlterOtherCells(surface.ground, point, vg),
                      !.d_ratio = AlterOtherCells(surface.d_ratio, point, vd),
                      !.h_ratio = AlterOtherCells(surface.h_ratio, point, vh)] :
          vg \in OtherCellValues, vd \in OtherCellValues, vh \in OtherCellValues }

Add(a, k) == IF IsFinite(a) THEN a + k ELSE a

\* the point, the input vector and the raster raised by k
ShiftPoint(point, k) == Point3D(point.x, point.y, Add(point.z, k))

ShiftPoints(pts, k) == [j \in 1..Len(pts) |-> ShiftPoint(pts[j], k)]

ShiftRaster(R, k) ==
    IF R.kind = "single" THEN Single_value_pseudo_raster(Add(R.value, k))
    ELSE [R EXCEPT !.values = [j \in 1..Len(R.values) |-> Add(R.values[j], k)]]

\* the elevations the points and the ground are raised by
Shifts == { 100, -3 }

\* mode and trace of every input point of a whole run with the parameters of
\* this run, ub being what an undefined read produces while the index is built
RunOf(pts, surf, ub) ==
    [j \in 1..Len(pts) |->
        calculate_a_single_mode_plus_centroids(
            pts[j], CreateIndex(pts, surf, min_point_height_above_ground, ub),
            min_point_height_above_ground, surf, centroid_convergence_distance,
            max_num_centroids_per_mode)]

\* the normalized-heights surface with the ratios of the surface called
NormalizedSurface == [surface EXCEPT !.variant = "normalized",
                                     !.ground = Single_value_pseudo_raster(0)]

\* the ground raster holds 0 under every input point with finite coordinates
GroundZeroUnderPoints ==
    \A j \in 1..Len(points) :
        FiniteCoordinates(points[j]) =>
            /\ has_value_at_xy_of(surface.ground, points[j])
            /\ GroundUnder(points[j]) = 0

\* C22 (as claimed): a run of the ground-raster variant on points and a ground
\* raster both raised by k returns for every input point the mode of this run
\* raised by k in z, with a trace of the same length; over a ground raster
\* that is 0 under every point the modes are those of the normalized-heights
\* variant.
C22_GroundNormalization ==
    (phase = "done" /\ surface.variant = "terraneous") =>
        /\ \A k \in Shifts, ub \in GarbageValues :
              LET raised == RunOf(ShiftPoints(points, k),
                                  [surface EXCEPT !.ground = ShiftRaster(surface.ground, k)],
                                  ub)
              IN  \A j \in 1..Len(points) :
                      /\ raised[j].mode = ShiftPoint(result.modes[j], k)
                      /\ Len(raised[j].centroids) = Len(DriverResult(j).centroids)
        /\ GroundZeroUnderPoints =>
              \A ub \in GarbageValues :
                  result.modes = [j \in 1..Len(points) |-> RunOf(points, NormalizedSurface, ub)[j].mode]

----------------------------------------------------------------------------
(* Properties of the filtered iterators (SpecIterator) *)

\* the value the iterator gets from the raster under the point in this run
ValueRead(R, point) == no_throw_value_at_xy_of(R, point, unit.ub)

\* the predicate of the iterator's class: finite coordinates, and a height
\* >= the minimum, above a finite ground for the two raster classes and with
\* a finite minimum for the grid class
PassesPredicate(point) ==
    /\ FiniteCoordinates(point)
    /\ CASE unit.args.cls = "above_height" -> point.z >= unit.args.min_height
         [] unit.args.cls = "above_ground" ->
               /\ ~NonFinite(ValueRead(unit.args.ground, point))
               /\ point.z - ValueRead(unit.args.ground, point) >= unit.args.min_height
         [] unit.args.cls = "height_grid" ->
               /\ ~NonFinite(ValueRead(unit.args.ground, point))
               /\ ~NonFinite(ValueRead(unit.args.min_grid, point))
               /\ point.z - ValueRead(unit.args.ground, point)
                     >= ValueRead(unit.args.min_grid, point)

\* the k passing elements in the order of the vector
PassingElements == SelectSeq(unit.pts, PassesPredicate)

EndPosition == Len(unit.pts) + 1

\* C23: the begin iterator and the iterator after every increment point at a
\* passing element or at the end; the elements yielded are the passing
\* elements in the order of the vector; the iterator equals the end iterator
\* after exactly k increments, at once when no element passes; the pointer
\* never goes beyond the end position.
C23_FilteredIteration ==
    /\ unit.last # NoIterator => unit.last.ptr = EndPosition
    /\ unit.first # NoIterator =>
          /\ unit.first.ptr \in 1..EndPosition
          /\ unit.first.ptr # EndPosition => PassesPredicate(unit.pts[unit.first.ptr])
          /\ unit.num_increments <= Len(PassingElements)
          /\ unit.yielded = SubSeq(PassingElements, 1, unit.num_increments)
          /\ unit.first.ptr = EndPosition <=> unit.num_increments = Len(PassingElements)
          /\ unit.last # NoIterator =>
                (IteratorEq(unit.first, unit.last)
                    <=> unit.num_increments = Len(PassingElements))
          /\ \A k \in 1..Len(unit.accesses) : unit.accesses[k].ptr <= EndPosition

\* the ground iterator over a point below the minimum and a point above it
\* has yielded the second one and has reached the end after one increment
C23_Witness ==
    /\ unit.op = "increment"
    /\ unit.args.cls = "above_ground"
    /\ Len(unit.pts) = 2
    /\ FiniteCoordinates(unit.pts[1])
    /\ ~PassesPredicate(unit.pts[1])
    /\ unit.yielded = << unit.pts[2] >>
    /\ unit.num_increments = 1
    /\ IteratorEq(unit.first, unit.last)


\* the raster reads the iterators have made so far
RasterReads == SelectSeq(unit.accesses, LAMBDA a : a.access = "raster")

\* C24 (as claimed): every point for which the two raster iterators read a
\* raster without a check lies inside the closed extent of that raster, so
\* the flat cell index of the read is one of 0..len(values)-1.
C24_UncheckedReadsInside ==
    \A k \in 1..Len(RasterReads) :
        RasterReads[k].raster.kind = "grid" =>
            /\ InRectangle(RasterReads[k].raster, unit.pts[RasterReads[k].ptr])
            /\ RowQuotient(RasterReads[k].raster, unit.pts[RasterReads[k].ptr]) >= 0
            /\ ColQuotient(RasterReads[k].raster, unit.pts[RasterReads[k].ptr]) >= 0
            /\ FlatIndex(RasterReads[k].raster, unit.pts[RasterReads[k].ptr])
                  \in 0..(Len(RasterReads[k].raster.values) - 1)

\* C28: no iterator reads a raster through a null pointer, none reads the
\* element at the end position, and the construction of an end iterator
\* reads neither an element nor a raster.
C28_EndSentinels ==
    /\ \A k \in 1..Len(unit.accesses) :
          /\ unit.accesses[k].access = "raster" => unit.accesses[k].raster # NullRaster
          /\ unit.accesses[k].ptr # EndPosition
    /\ unit.op = "cend" =>
          /\ AccessesOfSkipLoop(unit.last, unit.pts, unit.ub) = << >>
          /\ unit.args.cls # "above_height" => unit.last.ground = NullRaster
          /\ unit.args.cls = "height_grid" => unit.last.min_grid = NullRaster
    /\ (unit.first # NoIterator /\ unit.first.ptr = EndPosition) =>
          AccessesOfSkip(unit.first, unit.pts) = << >>

\* the begin iterator of the grid class has walked over two finite points
\* that do not pass and stands at the end, next to the end iterator with its
\* null rasters
C28_Witness ==
    /\ unit.args.cls = "height_grid"
    /\ unit.first # NoIterator
    /\ unit.last # NoIterator
    /\ unit.last.ground = NullRaster
    /\ Len(unit.pts) = 2
    /\ unit.num_increments = 0
    /\ unit.first.ptr = EndPosition
    /\ Len(RasterReads) = 4

----------------------------------------------------------------------------
(* Properties of the index and the driver together (Spec) *)

\* the index holds a point with these coordinates
InIndex(point) == \E k \in 1..Len(indexed_point_cloud) : indexed_point_cloud[k] = point

\* the input points the claim is about: all of them in the normalized-heights
\* variant, those inside the extent over a finite ground in the ground-raster
\* variant
SameFilterExpected(point) ==
    \/ surface.variant = "normalized"
    \/ /\ surface.variant = "terraneous"
       /\ FiniteValueUnder(surface.ground, point)

\* C25: with one minimum height for the index and the driver, an input point
\* of the normalized-heights variant is in the index exactly when the driver
\* does not reject it, both rejecting on finite coordinates and z < min; in
\* the ground-raster variant the same holds for every input point inside the
\* extent over a finite ground.
C25_IndexAgreesWithDriver ==
    /\ phase \notin { "build", "crashed" } =>
          \A j \in 1..Len(points) :
              SameFilterExpected(points[j]) =>
                  /\ InIndex(points[j])
                        <=> ~ShortCircuit(points[j], surface, min_point_height_above_ground)
                  /\ InIndex(points[j])
                        <=> /\ FiniteCoordinates(points[j])
                            /\ points[j].z - GroundUnder(points[j])
                                  >= min_point_height_above_ground
    /\ (phase = "emit" /\ SameFilterExpected(CurrentPoint)) =>
          (outcome = "rejected" <=> ~InIndex(CurrentPoint))

\* a point of the normalized-heights variant exactly at the minimum of 8 is
\* in the index and was not rejected
C25_Witness ==
    /\ phase = "emit"
    /\ surface.variant = "normalized"
    /\ min_point_height_above_ground = 8
    /\ FiniteCoordinates(CurrentPoint)
    /\ CurrentPoint.z = 8
    /\ InIndex(CurrentPoint)
    /\ outcome # "rejected"


\* the candidate's height above the ground read under it
CandidateHeight == CurrentPoint.z - GroundUnder(CurrentPoint)

\* ratios in quarters: d_ratio > 0, and h_ratio from 0.25 to the largest one
\* that leaves the bottom unclamped, 4
PositiveRatios == { 1, 20 }
UnclampedRatios == { 1, 2, 16 }

\* the first kernel of the candidate for the given ratios
FirstKernel(d_ratio, h_ratio) == Kernel(CurrentPoint, GroundUnder(CurrentPoint), d_ratio, h_ratio)

\* C26: for an accepted candidate with a height above ground h > 0, a
\* d_ratio > 0 and 0 < h_ratio <= 4 the bottom of its first kernel is not
\* clamped, the candidate lies between bottom and top on the kernel's axis,
\* and when it is in the index the first query returns it with a weight > 0;
\* the first iteration of such a candidate is not degenerate and its mode is
\* not the NaN-point.
C26_CandidateInOwnKernel ==
    /\ ( /\ phase = "iterate"
         /\ num_centroids = 0
         /\ CandidateHeight > 0 ) =>
           \A d_ratio \in PositiveRatios, h_ratio \in UnclampedRatios :
               LET K == FirstKernel(d_ratio, h_ratio)
                   found == find_intersecting_points_in(K, indexed_point_cloud)
               IN  /\ 16 * CandidateHeight - CandidateHeight * h_ratio >= 0
                   /\ K.bottom16 = 16 * CurrentPoint.z - CandidateHeight * h_ratio
                   /\ K.bottom16 <= 16 * CurrentPoint.z
                   /\ 16 * CurrentPoint.z <= K.top16
                   /\ K.xy_center = get_xy_point(CurrentPoint)
                   /\ InIndex(CurrentPoint) =>
                         /\ \E k \in 1..Len(found) : found[k] = CurrentPoint
                         /\ calculate_point_weight_of(K, CurrentPoint) > 0
                         /\ ~IsNaN(calculate_point_weight_of(K, CurrentPoint))
                         /\ calculate_centroid_in(K, indexed_point_cloud).defined
    /\ ( /\ phase = "iterate"
         /\ num_centroids = 0
         /\ CandidateHeight > 0
         /\ InIndex(CurrentPoint) ) =>
           /\ \E k \in 1..Len(PendingPoints) : PendingPoints[k] = CurrentPoint
           /\ ~PendingDegenerate
    /\ ( /\ phase = "emit"
         /\ outcome # "rejected"
         /\ CandidateHeight > 0
         /\ InIndex(CurrentPoint) ) =>
           /\ ~(outcome = "degenerate" /\ num_centroids = 0)
           /\ num_centroids >= 1
           /\ mode # nan_point
           /\ FiniteCoordinates(mode)

\* a candidate 8 above a ground of 2, in the index with a second point, has
\* got a finite mode from its first kernel
C26_Witness ==
    /\ phase = "emit"
    /\ surface.variant = "flexible"
    /\ GroundUnder(CurrentPoint) = 2
    /\ CandidateHeight = 8
    /\ InIndex(CurrentPoint)
    /\ Len(indexed_point_cloud) = 2
    /\ num_centroids = 1
    /\ outcome = "converged"
    /\ FiniteCoordinates(mode)


\* the centroid the pending iteration computes
PendingCentroid == calculate_centroid_in(PendingKernel, indexed_point_cloud).point

\* the point has finite coordinates inside the bounding box of the index
InBoundingBox(point) ==
    /\ FiniteCoordinates(point)
    /\ \E a, b \in { indexed_point_cloud[k] : k \in 1..Len(indexed_point_cloud) } :
          /\ a.x <= point.x /\ point.x <= b.x
    /\ \E a, b \in { indexed_point_cloud[k] : k \in 1..Len(indexed_point_cloud) } :
          /\ a.y <= point.y /\ point.y <= b.y
    /\ \E a, b \in { indexed_point_cloud[k] : k \in 1..Len(indexed_point_cloud) } :
          /\ a.z <= point.z /\ point.z <= b.z

\* C27 (as claimed): the centroid of every iteration that is not degenerate
\* lies within the radius of the axis of the kernel that produced it and
\* between its bottom and its top; every trace point and every mode other
\* than the NaN-point lies in the bounding box of the indexed points and not
\* below the ground height of its kernel.
C27_CentroidInsideKernel ==
    /\ (phase = "iterate" /\ ~PendingDegenerate) =>
          /\ FiniteCoordinates(PendingCentroid)
          /\ 64 * comparable_distance(get_xy_point(PendingCentroid), PendingKernel.xy_center)
                <= PendingKernel.radius8 * PendingKernel.radius8
          /\ PendingKernel.bottom16 <= 16 * PendingCentroid.z
          /\ 16 * PendingCentroid.z <= PendingKernel.top16
    /\ DriverActive =>
          \A k \in 1..Len(trace) :
              /\ InBoundingBox(trace[k])
              /\ trace[k].z >= read.ground
    /\ (phase = "emit" /\ mode # nan_point) =>
          /\ InBoundingBox(mode)
          /\ mode.z >= read.ground

====
